---- MODULE Spec2Model ----
(***************************************************************************)
(* Model of the screenshot worker of MLMGsPro:                             *)
(*   src/src/worker_screenshot_device_base.py  (WorkerScreenshotBase)      *)
(* The ghost-shot filter and the delayed-club-metrics cache, driven by     *)
(* do_screenshot, with wall-clock time passing between the calls.          *)
(***************************************************************************)
EXTENDS Integers, Sequences, FiniteSets, TLC

(***************************************************************************)
(* Bounds of the model.                                                    *)
(***************************************************************************)
\* Clock resolution: datetime.now() is observed in ticks of 1/TicksPerSecond s.
TicksPerSecond == 2
\* Thresholds are values of 1..MaxThreshold, saturations of 0..MaxThreshold + 1.
MaxThreshold == 3
\* time.sleep(screenshot_interval) and the rest of an iteration take
\* 1..MaxSleepTicks ticks.
MaxSleepTicks == 2
\* Connections that clients open to the relay server.
MaxConnections == 2
\* The relay's counters of consecutive frames are told apart up to MaxCount.
MaxCount == 3
\* Whole days that the model tells apart in an elapsed time (the last value
\* stands for "that many or more").
MaxDays == 1
\* Ball metrics of a reading (speed, spin, ...) are one value of 1..MaxBall.
MaxBall == 2
\* Angle of attack and club path are values of 0..MaxClub (0: not read yet).
MaxClub == 1

(***************************************************************************)
(* Program constants.                                                      *)
(***************************************************************************)
GhostWindowSeconds == 5
GhostWarnCount == 2
DelayedMetricsTimeoutSeconds == 3
SecondsPerDay == 86400
ClubScanTimeoutSeconds == 6
\* self.saturation_threshold and self.required_consecutive_frames of the relay.
SaturationThreshold == 13
RequiredConsecutiveFrames == 2
\* WAIT_AFTER_GRAYSCALE, in tenths of a second.
WaitAfterGrayscaleTenths == 25

(***************************************************************************)
(* Values.                                                                 *)
(***************************************************************************)
\* Python's None.
None == [tag |-> "None"]

Min(a, b) == IF a <= b THEN a ELSE b

\* A datetime is held as the timedelta datetime.now() - t, the time elapsed
\* since it: whole days and the ticks of the day that follow them.
TicksPerDay == SecondsPerDay * TicksPerSecond
Now == [days |-> 0, ticks |-> 0]

\* Elapsed times from which no comparison of the program can tell larger ones.
LastShotHorizon == (GhostWindowSeconds + 1) * TicksPerSecond
PendingHorizon == (DelayedMetricsTimeoutSeconds + 1) * TicksPerSecond

TotalTicks(td) == td.days * TicksPerDay + td.ticks

\* timedelta.seconds: the seconds field of the normalised timedelta, that is
\* the whole seconds of the elapsed time left after its whole days.
TimedeltaSeconds(td) == (TotalTicks(td) \div TicksPerSecond) % SecondsPerDay

\* timedelta >= timedelta(seconds = s)
TimedeltaAtLeast(td, s) == TotalTicks(td) >= s * TicksPerSecond

\* What ocr_image leaves in screenshot.balldata for a new screenshot: a new
\* BallData object oid, with the three forwarding flags not yet set.
BallData(oid, good, upd, pend, ball, aoa, path) ==
    [oid |-> oid, good_shot |-> good,
     delayed_metrics_update |-> upd, delayed_metrics_pending |-> pend,
     ball |-> ball, angle_of_attack |-> aoa, club_path |-> path,
     contains_ball_data |-> FALSE, contains_club_data |-> FALSE,
     club_data_only |-> FALSE]

VARIABLES
    shot_count,            \* self.shot_count
    time_of_last_shot,     \* self.time_of_last_shot, as the time elapsed since
    pending_shot,          \* self.pending_shot: None or a BallData
    pending_shot_started,  \* self.pending_shot_started: None or elapsed time
    signals,               \* the signals emitted by the call in progress, in order
    call,                  \* the call in progress: its reading, the state it found
    had_good_shot,         \* history: the ghost filter has seen a good shot
    burst,                 \* history: place of the latest good shot in a burst
    since_good_shot        \* history: time elapsed since the latest good shot
                           \* that went through the ghost filter

worker_vars == <<shot_count, time_of_last_shot, pending_shot,
                 pending_shot_started, signals, call, had_good_shot, burst,
                 since_good_shot>>

\* The loop of WorkerScreenshotDeviceLaunchMonitor.run.
VARIABLES
    pc,                    \* where run() is: "start", "sleep", "body", "done", "crashed"
    ws,                    \* the OBS websocket: "connected" or "none" (ws = None)
    device,                \* self.device is set
    shutdown,              \* self._shutdown is set
    last_state,            \* last_state: "none", "shot", "hotkey" or "pause"
    club_scan_started_at,  \* self._club_scan_started_at: None or elapsed time
    club_scan_timed_out,   \* self._club_scan_timed_out
    sample,                \* what the iteration in progress sampled and found
    acts,                  \* what the iteration in progress did, in order
    stay,                  \* history: the stay in the club-scan window
    caught,                \* history: the exceptions the last iteration caught
    pause_open             \* history: the loop paused and has not resumed since

loop_vars == <<pc, ws, device, shutdown, last_state, club_scan_started_at,
               club_scan_timed_out, sample, acts, stay, caught, pause_open>>

\* WorkerDeviceLaunchMonitorRelayServer: the locals and fields of run().
VARIABLES
    relay_pc,              \* where run() is: start, detect, accept, inner, recv,
                           \* sleep, done
    obs_connected,         \* the OBS websocket connected at startup
    relay_last_state,      \* last_state: "none" (None), "gray" (True), "color" (False)
    consecutive_grayscale,
    consecutive_color,
    connection,            \* self.connection: None or the accepted socket
    pause_gate,            \* self._pause is set (the gate is open)
    relay_shutdown,        \* self._shutdown is set
    relay_acts,            \* what the last step of run() did, in order
    relay_step,            \* the last step of run() and what it found
    relay_hist             \* history: frames sampled, connections accepted and lost

relay_vars == <<relay_pc, obs_connected, relay_last_state, consecutive_grayscale,
                consecutive_color, connection, pause_gate, relay_shutdown,
                relay_acts, relay_step, relay_hist>>

vars == <<worker_vars, loop_vars, relay_vars>>

\* The worker object as a record, for the methods below.
Self == [shot_count |-> shot_count, time_of_last_shot |-> time_of_last_shot,
         pending_shot |-> pending_shot,
         pending_shot_started |-> pending_shot_started,
         signals |-> <<>>]

Emit(self, signal, payload) ==
    [self EXCEPT !.signals = Append(@, [signal |-> signal, payload |-> payload])]

(***************************************************************************)
(* Methods of WorkerScreenshotBase.                                        *)
(***************************************************************************)
\* Variant: the time at which the shot was cached stays when it is cleared.
ClearPendingShot_KeepsStarted(self) ==
    IF self.pending_shot = None THEN self
    ELSE [self EXCEPT !.pending_shot = None]

ClearPendingShot(self) ==
    IF self.pending_shot = None THEN self
    ELSE [self EXCEPT !.pending_shot = None, !.pending_shot_started = None]

\* Variant: the comparison with the timeout is strict.
FlushPendingShotIfTimedOut_Strict(self) ==
    IF self.pending_shot = None \/ self.pending_shot_started = None THEN self
    ELSE IF TotalTicks(self.pending_shot_started)
               > DelayedMetricsTimeoutSeconds * TicksPerSecond
         THEN ClearPendingShot(self)
         ELSE self

\* Variant: a pending shot that timed out is sent downstream when it is flushed.
FlushPendingShotIfTimedOut_Forwards(self) ==
    IF self.pending_shot = None \/ self.pending_shot_started = None THEN self
    ELSE IF TimedeltaAtLeast(self.pending_shot_started, DelayedMetricsTimeoutSeconds)
         THEN ClearPendingShot(Emit(self, "shot", self.pending_shot))
         ELSE self

FlushPendingShotIfTimedOut(self) ==
    IF self.pending_shot = None \/ self.pending_shot_started = None THEN self
    ELSE IF TimedeltaAtLeast(self.pending_shot_started, DelayedMetricsTimeoutSeconds)
         THEN ClearPendingShot(self)
         ELSE self

\* Variant: a shot that is already pending is kept.
CachePendingShot_KeepsEarlier(self, ball_data) ==
    IF self.pending_shot # None THEN self
    ELSE [self EXCEPT !.pending_shot = ball_data, !.pending_shot_started = Now]

CachePendingShot(self, ball_data) ==
    [self EXCEPT !.pending_shot = ball_data, !.pending_shot_started = Now]

SendClubMetricsUpdate(self, ball_data) == Emit(self, "shot", ball_data)

\* BallData.__copy__: another object with the same attributes.
Copy(ball_data) == [ball_data EXCEPT !.oid = 2]

\* Variant: the pending shot stays cached after the update was sent.
ProcessDelayedMetricsUpdate_KeepsPending(self, ball_data) ==
    IF self.pending_shot = None THEN self
    ELSE LET merged == [self.pending_shot EXCEPT
                            !.angle_of_attack = ball_data.angle_of_attack,
                            !.club_path = ball_data.club_path]
             club_update == [Copy(merged) EXCEPT
                                 !.contains_ball_data = FALSE,
                                 !.contains_club_data = TRUE,
                                 !.club_data_only = TRUE,
                                 !.good_shot = TRUE]
         IN  SendClubMetricsUpdate([self EXCEPT !.pending_shot = merged],
                                   club_update)

\* Variant: an update that finds no pending shot is sent as it is.
ProcessDelayedMetricsUpdate_ForwardsOrphan(self, ball_data) ==
    LET base == IF self.pending_shot = None THEN ball_data ELSE self.pending_shot
        merged == [base EXCEPT
                       !.angle_of_attack = ball_data.angle_of_attack,
                       !.club_path = ball_data.club_path]
        club_update == [Copy(merged) EXCEPT
                            !.contains_ball_data = FALSE,
                            !.contains_club_data = TRUE,
                            !.club_data_only = TRUE,
                            !.good_shot = TRUE]
    IN  SendClubMetricsUpdate(
            ClearPendingShot([self EXCEPT !.pending_shot =
                                 IF @ = None THEN None ELSE merged]),
            club_update)

ProcessDelayedMetricsUpdate(self, ball_data) ==
    IF self.pending_shot = None THEN self
    ELSE LET merged == [self.pending_shot EXCEPT
                            !.angle_of_attack = ball_data.angle_of_attack,
                            !.club_path = ball_data.club_path]
             club_update == [Copy(merged) EXCEPT
                                 !.contains_ball_data = FALSE,
                                 !.contains_club_data = TRUE,
                                 !.club_data_only = TRUE,
                                 !.good_shot = TRUE]
         IN  SendClubMetricsUpdate(
                 ClearPendingShot([self EXCEPT !.pending_shot = merged]),
                 club_update)

\* Variant: only a shot that is sent downstream restarts the ghost window.
HandleGoodShot_StampsAcceptedOnly(self, ball_data) ==
    LET last_shot_seconds == TimedeltaSeconds(self.time_of_last_shot)
        count == IF last_shot_seconds <= GhostWindowSeconds
                 THEN self.shot_count + 1 ELSE 0
        s1 == [self EXCEPT !.shot_count = count]
    IN  IF count >= 1
        THEN LET s2 == Emit(s1, "same_shot", None)
             IN  IF count > GhostWarnCount
                 THEN [self |-> [Emit(s2, "too_many_ghost_shots", None)
                                     EXCEPT !.shot_count = 0],
                       ball_data |-> ball_data]
                 ELSE [self |-> s2, ball_data |-> ball_data]
        ELSE LET sent == [ball_data EXCEPT !.contains_ball_data = TRUE,
                                           !.contains_club_data = TRUE,
                                           !.club_data_only = FALSE]
             IN  [self |-> Emit([s1 EXCEPT !.time_of_last_shot = Now],
                                "shot", sent),
                  ball_data |-> sent]

\* Variant: the warning is raised from the second ghost shot on.
HandleGoodShot_WarnsEarly(self, ball_data) ==
    LET last_shot_seconds == TimedeltaSeconds(self.time_of_last_shot)
        count == IF last_shot_seconds <= GhostWindowSeconds
                 THEN self.shot_count + 1 ELSE 0
        s1 == [self EXCEPT !.shot_count = count, !.time_of_last_shot = Now]
    IN  IF count >= 1
        THEN LET s2 == Emit(s1, "same_shot", None)
             IN  IF count >= GhostWarnCount
                 THEN [self |-> [Emit(s2, "too_many_ghost_shots", None)
                                     EXCEPT !.shot_count = 0],
                       ball_data |-> ball_data]
                 ELSE [self |-> s2, ball_data |-> ball_data]
        ELSE LET sent == [ball_data EXCEPT !.contains_ball_data = TRUE,
                                           !.contains_club_data = TRUE,
                                           !.club_data_only = FALSE]
             IN  [self |-> Emit(s1, "shot", sent), ball_data |-> sent]

\* Variant: the counter is left as it is when the user is warned.
HandleGoodShot_WarnsWithoutReset(self, ball_data) ==
    LET last_shot_seconds == TimedeltaSeconds(self.time_of_last_shot)
        count == IF last_shot_seconds <= GhostWindowSeconds
                 THEN self.shot_count + 1 ELSE 0
        s1 == [self EXCEPT !.shot_count = count, !.time_of_last_shot = Now]
    IN  IF count >= 1
        THEN LET s2 == Emit(s1, "same_shot", None)
             IN  IF count > GhostWarnCount
                 THEN [self |-> Emit(s2, "too_many_ghost_shots", None),
                       ball_data |-> ball_data]
                 ELSE [self |-> s2, ball_data |-> ball_data]
        ELSE LET sent == [ball_data EXCEPT !.contains_ball_data = TRUE,
                                           !.contains_club_data = TRUE,
                                           !.club_data_only = FALSE]
             IN  [self |-> Emit(s1, "shot", sent), ball_data |-> sent]

\* Returns the worker and ball_data, which an accepted shot changes in place.
HandleGoodShot(self, ball_data) ==
    LET last_shot_seconds == TimedeltaSeconds(self.time_of_last_shot)
        count == IF last_shot_seconds <= GhostWindowSeconds
                 THEN self.shot_count + 1 ELSE 0
        s1 == [self EXCEPT !.shot_count = count, !.time_of_last_shot = Now]
    IN  IF count >= 1
        THEN LET s2 == Emit(s1, "same_shot", None)
             IN  IF count > GhostWarnCount
                 THEN [self |-> [Emit(s2, "too_many_ghost_shots", None)
                                     EXCEPT !.shot_count = 0],
                       ball_data |-> ball_data]
                 ELSE [self |-> s2, ball_data |-> ball_data]
        ELSE LET sent == [ball_data EXCEPT !.contains_ball_data = TRUE,
                                           !.contains_club_data = TRUE,
                                           !.club_data_only = FALSE]
             IN  [self |-> Emit(s1, "shot", sent), ball_data |-> sent]

\* Variant: every shot that went through the ghost filter is cached.
GoodShotBranch_CachesEveryShot(self, ball_data) ==
    LET h == HandleGoodShot(self, ball_data)
    IN  CachePendingShot(h.self, h.ball_data)

\* Variant: a new independent shot leaves the pending shot in the cache.
GoodShotBranch_KeepsPending(self, ball_data) ==
    LET h == HandleGoodShot(self, ball_data)
    IN  IF h.ball_data.delayed_metrics_pending
        THEN CachePendingShot(h.self, h.ball_data)
        ELSE h.self

\* The branch of do_screenshot for a good new reading that is no delayed update.
GoodShotBranch(self, ball_data) ==
    LET h == HandleGoodShot(self, ball_data)
    IN  IF h.ball_data.delayed_metrics_pending
        THEN CachePendingShot(h.self, h.ball_data)
        ELSE IF h.self.pending_shot # None
                /\ h.self.pending_shot.oid # h.ball_data.oid
             THEN ClearPendingShot(h.self)
             ELSE h.self

\* Variant: the delayed-metrics flags are looked at before good_shot.
DoScreenshot_FlagsBeforeGood(self, screenshot) ==
    LET s0 == FlushPendingShotIfTimedOut(self)
    IN  IF screenshot.screenshot_new
        THEN IF screenshot.new_shot
             THEN IF screenshot.balldata.delayed_metrics_update
                  THEN ProcessDelayedMetricsUpdate(s0, screenshot.balldata)
                  ELSE IF screenshot.balldata.good_shot
                       THEN GoodShotBranch(s0, screenshot.balldata)
                       ELSE Emit(s0, "bad_shot", screenshot.balldata)
             ELSE Emit(s0, "same_shot", None)
        ELSE Emit(s0, "same_shot", None)

\* Variant: a screenshot that shows the shot seen before restarts the ghost
\* window.
DoScreenshot_SameShotRestartsWindow(self, screenshot) ==
    LET s0 == FlushPendingShotIfTimedOut(self)
        seen == [s0 EXCEPT !.time_of_last_shot = Now]
    IN  IF screenshot.screenshot_new
        THEN IF screenshot.new_shot
             THEN IF screenshot.balldata.good_shot
                  THEN IF screenshot.balldata.delayed_metrics_update
                       THEN ProcessDelayedMetricsUpdate(s0, screenshot.balldata)
                       ELSE GoodShotBranch(s0, screenshot.balldata)
                  ELSE Emit(s0, "bad_shot", screenshot.balldata)
             ELSE Emit(seen, "same_shot", None)
        ELSE Emit(s0, "same_shot", None)

\* do_screenshot; screenshot is what capture_screenshot and ocr_image found.
DoScreenshot(self, screenshot) ==
    LET s0 == FlushPendingShotIfTimedOut(self)
    IN  IF screenshot.screenshot_new
        THEN IF screenshot.new_shot
             THEN IF screenshot.balldata.good_shot
                  THEN IF screenshot.balldata.delayed_metrics_update
                       THEN ProcessDelayedMetricsUpdate(s0, screenshot.balldata)
                       ELSE GoodShotBranch(s0, screenshot.balldata)
                  ELSE Emit(s0, "bad_shot", screenshot.balldata)
             ELSE Emit(s0, "same_shot", None)
        ELSE Emit(s0, "same_shot", None)

(***************************************************************************)
(* The screenshots a call can meet.                                        *)
(***************************************************************************)
\* ocr_image builds a new BallData for every new screenshot: never the object
\* that is cached as the pending shot.
FreshOid == IF pending_shot = None THEN 0 ELSE 1 - pending_shot.oid

NewReadings ==
    { BallData(FreshOid, good, upd, pend, ball, aoa, path) :
        good \in BOOLEAN, upd \in BOOLEAN, pend \in BOOLEAN,
        ball \in 1..MaxBall, aoa \in 0..MaxClub, path \in 0..MaxClub }

Screenshots ==
    { [screenshot_new |-> FALSE, new_shot |-> FALSE, balldata |-> None],
      [screenshot_new |-> TRUE, new_shot |-> FALSE, balldata |-> None] }
    \cup { [screenshot_new |-> TRUE, new_shot |-> TRUE, balldata |-> b] :
             b \in NewReadings }

(***************************************************************************)
(* The state machine.                                                      *)
(***************************************************************************)
NoCall == [op |-> "none"]

\* No iteration of the loop in progress.
NoSample == [kind |-> "none"]
\* No stay in the club-scan window.
\* No step of the relay yet, and its history before the first step.
NoStep == [kind |-> "none"]
NoHist == [frames |-> <<>>, accepted |-> 0, live |-> {}, failed |-> FALSE,
           armed |-> TRUE]

NoStay == [in |-> FALSE, elapsed |-> 0, triggers |-> 0, ticks |-> 0,
           above |-> FALSE]

Init ==
    /\ shot_count = 0
    /\ time_of_last_shot = Now
    /\ pending_shot = None
    /\ pending_shot_started = None
    /\ signals = <<>>
    /\ call = NoCall
    /\ had_good_shot = FALSE
    /\ burst = 0
    /\ since_good_shot = Now
    /\ pc = "start"
    /\ ws = "none"
    /\ device = FALSE
    /\ shutdown = FALSE
    /\ last_state = "none"
    /\ club_scan_started_at = None
    /\ club_scan_timed_out = FALSE
    /\ sample = NoSample
    /\ acts = <<>>
    /\ stay = NoStay
    /\ caught = {}
    /\ pause_open = FALSE
    /\ relay_pc = "start"
    /\ obs_connected = FALSE
    /\ relay_last_state = "none"
    /\ consecutive_grayscale = 0
    /\ consecutive_color = 0
    /\ connection = None
    /\ pause_gate = TRUE
    /\ relay_shutdown = FALSE
    /\ relay_acts = <<>>
    /\ relay_step = NoStep
    /\ relay_hist = NoHist

\* The reading goes through the ghost filter (do_screenshot calls
\* __handle_good_shot for it).
Filtered(screenshot) ==
    /\ screenshot.screenshot_new
    /\ screenshot.new_shot
    /\ screenshot.balldata.good_shot
    /\ ~screenshot.balldata.delayed_metrics_update

\* The full shots and the club-only updates among emitted signals.
FullShots(sigs) ==
    SelectSeq(sigs, LAMBDA s : s.signal = "shot" /\ ~s.payload.club_data_only)
ClubOnlyShots(sigs) ==
    SelectSeq(sigs, LAMBDA s : s.signal = "shot" /\ s.payload.club_data_only)

\* An elapsed time of at most GhostWindowSeconds, on the wall clock.
WithinGhostWindow(td) == TotalTicks(td) <= GhostWindowSeconds * TicksPerSecond

\* The place of a filtered shot in a burst: 1 for a shot sent downstream,
\* n + 1 for a shot that follows shot n of a burst within the ghost window,
\* up to the shot that follows the third; 0 for any other.
BurstPlace(elapsed, sigs) ==
    IF burst \in 1..(GhostWarnCount + 1) /\ WithinGhostWindow(elapsed)
    THEN burst + 1
    ELSE IF Len(FullShots(sigs)) > 0 THEN 1 ELSE 0

\* The worker's loop calls do_screenshot; the state holds what the call emitted
\* until the call has returned.
DoScreenshotCall ==
    /\ call = NoCall
    /\ \E screenshot \in Screenshots :
        LET after == DoScreenshot(Self, screenshot)
        IN  /\ shot_count' = after.shot_count
            /\ time_of_last_shot' = after.time_of_last_shot
            /\ pending_shot' = after.pending_shot
            /\ pending_shot_started' = after.pending_shot_started
            /\ signals' = after.signals
            /\ call' = [op |-> "do_screenshot", screenshot |-> screenshot,
                        shot_count |-> shot_count,
                        time_of_last_shot |-> time_of_last_shot,
                        pending_shot |-> pending_shot,
                        pending_shot_started |-> pending_shot_started,
                        had_good_shot |-> had_good_shot,
                        since_good_shot |-> since_good_shot]
            /\ had_good_shot' = (had_good_shot \/ Filtered(screenshot))
            /\ burst' = IF Filtered(screenshot)
                         THEN BurstPlace(time_of_last_shot, after.signals)
                         ELSE burst
            /\ since_good_shot' = IF Filtered(screenshot) THEN Now
                                   ELSE since_good_shot
    /\ UNCHANGED <<loop_vars, relay_vars>>

\* do_screenshot returns to the loop, the emitted signals are with their slots.
Return ==
    /\ call # NoCall
    /\ signals' = <<>>
    /\ call' = NoCall
    /\ UNCHANGED <<shot_count, time_of_last_shot, pending_shot,
                   pending_shot_started, had_good_shot, burst, since_good_shot>>
    /\ UNCHANGED <<loop_vars, relay_vars>>

\* The clock advances by one tick between two calls.
Advance(td, horizon) ==
    IF td = None THEN None ELSE [td EXCEPT !.ticks = Min(@ + 1, horizon)]

Tick ==
    /\ call = NoCall
    /\ time_of_last_shot' = Advance(time_of_last_shot, LastShotHorizon)
    /\ pending_shot_started' = Advance(pending_shot_started, PendingHorizon)
    /\ since_good_shot' = Advance(since_good_shot, LastShotHorizon)
    /\ UNCHANGED <<shot_count, pending_shot, signals, call, had_good_shot, burst>>
    /\ UNCHANGED <<loop_vars, relay_vars>>

\* A whole day passes between two calls.
AdvanceDay(td) ==
    IF td = None THEN None ELSE [td EXCEPT !.days = Min(@ + 1, MaxDays)]

DayPasses ==
    /\ call = NoCall
    /\ time_of_last_shot' = AdvanceDay(time_of_last_shot)
    /\ pending_shot_started' = AdvanceDay(pending_shot_started)
    /\ since_good_shot' = AdvanceDay(since_good_shot)
    /\ UNCHANGED <<shot_count, pending_shot, signals, call, had_good_shot, burst>>
    /\ UNCHANGED <<loop_vars, relay_vars>>

Next == DoScreenshotCall \/ Return \/ Tick \/ DayPasses

Spec == Init /\ [][Next]_vars

(***************************************************************************)
(* The loop of WorkerScreenshotDeviceLaunchMonitor.run.                    *)
(***************************************************************************)
\* time.sleep(WAIT_AFTER_GRAYSCALE), in ticks.
SettleTicks == (WaitAfterGrayscaleTenths * TicksPerSecond) \div 10
\* Elapsed times of the club scan beyond which the loop tells none apart.
ClubScanHorizon == ClubScanTimeoutSeconds * TicksPerSecond + 1

\* time.time() - self._club_scan_started_at, after dt more ticks.
Later(started, dt) ==
    IF started = None THEN None
    ELSE [ticks |-> Min(started.ticks + dt, ClubScanHorizon)]

\* time.time() - self._club_scan_started_at > CLUB_SCAN_TIMEOUT
ClubScanExceeded(started) ==
    started.ticks > ClubScanTimeoutSeconds * TicksPerSecond

\* What an iteration can sample: sct.grab raises, get_mean_saturation returns
\* None, or a saturation with the thresholds the main window has then; and
\* whether do_screenshot and the hotkey call raise in that iteration.
Samples ==
    { [kind |-> "grab_failed"], [kind |-> "no_saturation"] }
    \cup { [kind |-> "saturation", saturation |-> sat,
            shot_threshold |-> shot, obs_high_threshold |-> obs,
            capture_raises |-> cr, hotkey_raises |-> hr] :
             sat \in 0..(MaxThreshold + 1),
             shot \in 1..MaxThreshold, obs \in 1..MaxThreshold,
             cr \in BOOLEAN, hr \in BOOLEAN }

\* The loop's locals and fields as a record, for the branches below.
Loop == [last_state |-> last_state,
         club_scan_started_at |-> club_scan_started_at,
         club_scan_timed_out |-> club_scan_timed_out,
         ws |-> ws, acts |-> <<>>, branch |-> "none"]

Do(st, act) == [st EXCEPT !.acts = Append(@, act)]

\* try: self.do_screenshot(self.screenshot, self.device, False)
CaptureShot(st, in) ==
    IF in.capture_raises
    THEN Do(Do(st, "do_screenshot"), "capture_error")
    ELSE Do(st, "do_screenshot")

\* The parameters of WorkerScreenshotBase.do_screenshot, and the arguments of
\* the call that asks for the delayed club metrics only.
DoScreenshotParameters == {"screenshot", "settings", "rois_setup"}
PartialCaptureArguments == {"screenshot", "settings", "rois_setup", "partial_only"}

\* try: self.do_screenshot(self.screenshot, self.device, False,
\* partial_only=True): a call whose arguments do_screenshot does not take
\* raises TypeError before the method runs, and the loop logs it.
PartialCapture(st, in) ==
    IF PartialCaptureArguments \subseteq DoScreenshotParameters
    THEN IF in.capture_raises
         THEN Do(Do(st, "do_screenshot_partial"), "capture_error")
         ELSE Do(st, "do_screenshot_partial")
    ELSE Do(st, "partial_capture_error")

\* As TriggerHotkey, but a failed call is not remembered and is tried again.
TriggerHotkey_RetriesOnFailure(st, in) ==
    LET waited == [Do(st, "settle_wait") EXCEPT
                       !.club_scan_started_at = Later(@, SettleTicks)]
    IN  IF waited.ws = "none" THEN Do(waited, "hotkey_skipped")
        ELSE IF in.hotkey_raises
             THEN Do(Do(waited, "hotkey"), "hotkey_error")
             ELSE [Do(waited, "hotkey") EXCEPT !.last_state = "hotkey"]

\* The settle wait and the OBS hotkey.
TriggerHotkey(st, in) ==
    LET waited == [Do(st, "settle_wait") EXCEPT
                       !.club_scan_started_at = Later(@, SettleTicks)]
        called == IF waited.ws = "none" THEN Do(waited, "hotkey_skipped")
                  ELSE IF in.hotkey_raises
                       THEN Do(Do(waited, "hotkey"), "hotkey_error")
                       ELSE Do(waited, "hotkey")
    IN  [called EXCEPT !.last_state = "hotkey"]

\* As ShotBranch, but the timed-out flag outlives the shot.
ShotBranch_KeepsTimedOut(st, in) ==
    LET s1 == [st EXCEPT !.club_scan_started_at = None]
    IN  IF in.saturation = 0
        THEN [s1 EXCEPT !.branch = "zero"]
        ELSE LET s2 == IF s1.last_state = "pause" THEN Do(s1, "resume") ELSE s1
             IN  [CaptureShot(s2, in) EXCEPT !.last_state = "shot",
                                             !.branch = "capture"]

\* As ShotBranch, but only the tick that enters the shot band captures.
ShotBranch_CapturesOnEntryOnly(st, in) ==
    LET s1 == [st EXCEPT !.club_scan_started_at = None,
                         !.club_scan_timed_out = FALSE]
    IN  IF in.saturation = 0
        THEN [s1 EXCEPT !.branch = "zero"]
        ELSE LET s2 == IF s1.last_state = "pause" THEN Do(s1, "resume") ELSE s1
                 s3 == IF s2.last_state = "shot" THEN s2 ELSE CaptureShot(s2, in)
             IN  [s3 EXCEPT !.last_state = "shot", !.branch = "capture"]

\* As ShotBranch, but a capture that raises leaves last_state as it was.
ShotBranch_ErrorSkipsState(st, in) ==
    LET s1 == [st EXCEPT !.club_scan_started_at = None,
                         !.club_scan_timed_out = FALSE]
    IN  IF in.saturation = 0
        THEN [s1 EXCEPT !.branch = "zero"]
        ELSE LET s2 == IF s1.last_state = "pause" THEN Do(s1, "resume") ELSE s1
             IN  IF in.capture_raises
                 THEN [CaptureShot(s2, in) EXCEPT !.branch = "capture"]
                 ELSE [CaptureShot(s2, in) EXCEPT !.last_state = "shot",
                                                  !.branch = "capture"]

\* if mean_saturation < shot_threshold
ShotBranch(st, in) ==
    LET s1 == [st EXCEPT !.club_scan_started_at = None,
                         !.club_scan_timed_out = FALSE]
    IN  IF in.saturation = 0
        THEN [s1 EXCEPT !.branch = "zero"]
        ELSE LET s2 == IF s1.last_state = "pause" THEN Do(s1, "resume") ELSE s1
             IN  [CaptureShot(s2, in) EXCEPT !.last_state = "shot",
                                             !.branch = "capture"]

\* As PauseOnce, but pausing on every tick.
PauseOnce_Always(st) ==
    [Do(st, "pause") EXCEPT !.last_state = "pause"]

\* self.pause() unless the last state is "pause" already.
PauseOnce(st) ==
    IF st.last_state # "pause"
    THEN [Do(st, "pause") EXCEPT !.last_state = "pause"]
    ELSE st

\* The club-scan branch from the start of the timer on.
ClubScan(st, in) ==
    IF st.club_scan_started_at # None /\ ClubScanExceeded(st.club_scan_started_at)
    THEN [Do(st, "pause") EXCEPT !.club_scan_timed_out = TRUE,
                                 !.last_state = "pause"]
    ELSE LET s1 == IF st.club_scan_started_at = None
                   THEN [st EXCEPT !.club_scan_started_at = [ticks |-> 0]]
                   ELSE st
             s2 == IF s1.last_state # "hotkey" THEN TriggerHotkey(s1, in) ELSE s1
         IN  PartialCapture(s2, in)

\* As ClubBranch, but a timed-out scan starts over on the next tick.
ClubBranch_RestartsScan(st, in) ==
    LET s0 == [st EXCEPT !.branch = "club_wait"]
    IN  IF s0.club_scan_timed_out
        THEN ClubScan([s0 EXCEPT !.club_scan_timed_out = FALSE,
                                 !.club_scan_started_at = None], in)
        ELSE ClubScan(s0, in)

\* elif shot_threshold <= mean_saturation <= obs_high_threshold
ClubBranch(st, in) ==
    LET s0 == [st EXCEPT !.branch = "club_wait"]
    IN  IF s0.club_scan_timed_out
        THEN IF in.saturation < in.shot_threshold
                \/ in.saturation > in.obs_high_threshold
             THEN ClubScan([s0 EXCEPT !.club_scan_timed_out = FALSE,
                                      !.club_scan_started_at = None], in)
             ELSE PauseOnce(s0)
        ELSE ClubScan(s0, in)

\* As PauseBranch, but the club-scan timer is left running.
PauseBranch_KeepsTimer(st, in) ==
    PauseOnce([st EXCEPT !.club_scan_timed_out = FALSE,
                         !.branch = "paused"])

\* else: mean_saturation > obs_high_threshold
PauseBranch(st, in) ==
    PauseOnce([st EXCEPT !.club_scan_started_at = None,
                         !.club_scan_timed_out = FALSE,
                         !.branch = "paused"])

\* As LoopBody, but the club-scan window ends below obs_high_threshold.
LoopBody_PausesAtObsThreshold(st, in) ==
    LET s0 == Do(st, "saturationChanged")
    IN  IF in.saturation < in.shot_threshold
        THEN ShotBranch(s0, in)
        ELSE IF in.shot_threshold <= in.saturation
                /\ in.saturation < in.obs_high_threshold
             THEN ClubBranch(s0, in)
             ELSE PauseBranch(s0, in)

\* As LoopBody, but a saturation of exactly shot_threshold is a shot.
LoopBody_CaptureAtThreshold(st, in) ==
    LET s0 == Do(st, "saturationChanged")
    IN  IF in.saturation <= in.shot_threshold
        THEN ShotBranch(s0, in)
        ELSE IF in.shot_threshold <= in.saturation
                /\ in.saturation <= in.obs_high_threshold
             THEN ClubBranch(s0, in)
             ELSE PauseBranch(s0, in)

\* As LoopBody, but the two thresholds are put in order first.
LoopBody_OrdersThresholds(st, in) ==
    LET s0 == Do(st, "saturationChanged")
        low == Min(in.shot_threshold, in.obs_high_threshold)
        high == IF in.shot_threshold > in.obs_high_threshold
                THEN in.shot_threshold ELSE in.obs_high_threshold
    IN  IF in.saturation < low
        THEN ShotBranch(s0, in)
        ELSE IF low <= in.saturation /\ in.saturation <= high
             THEN ClubBranch(s0, in)
             ELSE PauseBranch(s0, in)

\* The body of the loop for a sample with a saturation.
LoopBody(st, in) ==
    LET s0 == Do(st, "saturationChanged")
    IN  IF in.saturation < in.shot_threshold
        THEN ShotBranch(s0, in)
        ELSE IF in.shot_threshold <= in.saturation
                /\ in.saturation <= in.obs_high_threshold
             THEN ClubBranch(s0, in)
             ELSE PauseBranch(s0, in)

\* The saturation is inside the club-scan window.
InWindow(in) ==
    /\ in.kind = "saturation"
    /\ in.shot_threshold <= in.saturation
    /\ in.saturation <= in.obs_high_threshold

\* The saturation is above the window (and not below the shot threshold).
AboveWindow(in) ==
    /\ in.kind = "saturation"
    /\ in.saturation > in.obs_high_threshold
    /\ in.saturation >= in.shot_threshold

\* The hotkey attempts among what an iteration did.
Attempts(did) == Len(SelectSeq(did, LAMBDA a : a = "settle_wait"))

\* The stay in the window after a sample: a sample inside the window starts or
\* continues it, a sample with a saturation outside ends it (and is remembered
\* as above the window or not).
StayAfter(in, did) ==
    IF in.kind # "saturation" THEN stay
    ELSE IF ~InWindow(in) THEN [NoStay EXCEPT !.above = AboveWindow(in)]
    ELSE LET waited == IF Attempts(did) > 0 THEN SettleTicks ELSE 0
         IN  IF stay.in
             THEN [in |-> TRUE,
                   elapsed |-> Min(stay.elapsed + waited, ClubScanHorizon),
                   triggers |-> Min(stay.triggers + Attempts(did), 2),
                   ticks |-> Min(stay.ticks + 1, 2), above |-> FALSE]
             ELSE [in |-> TRUE, elapsed |-> Min(waited, ClubScanHorizon),
                   triggers |-> Attempts(did), ticks |-> 1, above |-> FALSE]

\* The exceptions of the capture and of the hotkey call that the iteration
\* caught and logged.
Caught(did) ==
    { did[i] : i \in 1..Len(did) }
        \cap {"capture_error", "hotkey_error", "partial_capture_error"}

\* run() up to the loop: started is emitted, the OBS websocket connects or not.
Start ==
    /\ pc = "start"
    /\ \E w \in {"connected", "none"} : ws' = w
    /\ pc' = "sleep"
    /\ acts' = <<"started">>
    /\ UNCHANGED <<device, shutdown, last_state, club_scan_started_at,
                   club_scan_timed_out, sample, stay, caught,
                   pause_open>>
    /\ UNCHANGED <<worker_vars, relay_vars>>

\* Whether the loop has paused and not resumed since, after an iteration
\* whose acts are did (an iteration pauses or resumes at most once).
PauseOpenAfter(did) ==
    IF \E i \in 1..Len(did) : did[i] = "pause" THEN TRUE
    ELSE IF \E i \in 1..Len(did) : did[i] = "resume" THEN FALSE
    ELSE pause_open

\* The loop condition holds and the iteration sleeps.
Sleep ==
    /\ pc = "sleep"
    /\ ~shutdown
    /\ \E dt \in 1..MaxSleepTicks :
          /\ club_scan_started_at' = Later(club_scan_started_at, dt)
          /\ stay' = IF stay.in
                     THEN [stay EXCEPT !.elapsed = Min(@ + dt, ClubScanHorizon)]
                     ELSE stay
    /\ pc' = "body"
    /\ sample' = NoSample
    /\ acts' = <<>>
    /\ UNCHANGED <<ws, device, shutdown, last_state, club_scan_timed_out, caught,
                   pause_open>>
    /\ UNCHANGED <<worker_vars, relay_vars>>

\* The iteration after its sleep.
Iterate ==
    /\ pc = "body"
    /\ IF ~device
       THEN /\ sample' = [kind |-> "no_device"]
            /\ pc' = "sleep"
            /\ UNCHANGED <<last_state, club_scan_started_at,
                           club_scan_timed_out, acts, stay, caught,
                           pause_open>>
       ELSE \E in \in Samples :
            LET before == [last_state |-> last_state,
                           club_scan_started_at |-> club_scan_started_at,
                           club_scan_timed_out |-> club_scan_timed_out,
                           stay |-> stay, caught |-> caught,
                           pause_open |-> pause_open]
                after == IF in.kind = "saturation" THEN LoopBody(Loop, in)
                         ELSE Loop
            IN  /\ sample' = [kind |-> in.kind, in |-> in, before |-> before,
                              branch |-> after.branch]
                /\ pc' = IF in.kind = "grab_failed" THEN "crashed" ELSE "sleep"
                /\ last_state' = after.last_state
                /\ club_scan_started_at' = after.club_scan_started_at
                /\ club_scan_timed_out' = after.club_scan_timed_out
                /\ acts' = after.acts
                /\ stay' = StayAfter(in, after.acts)
                /\ caught' = Caught(after.acts)
                /\ pause_open' = PauseOpenAfter(after.acts)
    /\ UNCHANGED <<ws, device, shutdown>>
    /\ UNCHANGED <<worker_vars, relay_vars>>

\* The loop condition fails: the websocket is closed, finished is emitted.
Finish ==
    /\ pc = "sleep"
    /\ shutdown
    /\ pc' = "done"
    /\ sample' = NoSample
    /\ acts' = IF ws = "none" THEN <<"finished">> ELSE <<"disconnect", "finished">>
    /\ UNCHANGED <<ws, device, shutdown, last_state, club_scan_started_at,
                   club_scan_timed_out, stay, caught,
                   pause_open>>
    /\ UNCHANGED <<worker_vars, relay_vars>>

\* change_device, from the main window.
ChangeDevice ==
    /\ ~device
    /\ pc \in {"sleep", "body"}
    /\ device' = TRUE
    /\ UNCHANGED <<pc, ws, shutdown, last_state, club_scan_started_at,
                   club_scan_timed_out, sample, acts, stay, caught,
                   pause_open>>
    /\ UNCHANGED <<worker_vars, relay_vars>>

\* The owner of the worker sets the shutdown flag.
RequestShutdown ==
    /\ ~shutdown
    /\ pc \in {"sleep", "body"}
    /\ shutdown' = TRUE
    /\ UNCHANGED <<pc, ws, device, last_state, club_scan_started_at,
                   club_scan_timed_out, sample, acts, stay, caught,
                   pause_open>>
    /\ UNCHANGED <<worker_vars, relay_vars>>

LoopNext == Start \/ Sleep \/ Iterate \/ Finish \/ ChangeDevice \/ RequestShutdown

SpecLoop == Init /\ [][LoopNext]_vars

(***************************************************************************)
(* WorkerDeviceLaunchMonitorRelayServer.run: the grayscale detector and the *)
(* connection handling, one after the other in each iteration of one loop. *)
(***************************************************************************)
\* What the detector can sample: sct.grab raises, the saturation computation
\* raises, or a frame with a mean saturation around the threshold; and whether
\* the replay call raises in that iteration.
Frames ==
    { [kind |-> "grab_failed"], [kind |-> "saturation_failed"] }
    \cup { [kind |-> "frame", saturation |-> sat, replay_raises |-> rr] :
             sat \in (SaturationThreshold - 1)..(SaturationThreshold + 1),
             rr \in BOOLEAN }

\* is_grayscale_image: mean_saturation < self.saturation_threshold
IsGrayscaleImage(in) == in.saturation < SaturationThreshold

\* The detector's locals and the pause gate as a record.
Detector == [last_state |-> relay_last_state,
             consecutive_grayscale |-> consecutive_grayscale,
             consecutive_color |-> consecutive_color,
             obs_connected |-> obs_connected,
             pause_gate |-> pause_gate, acts |-> <<>>]

\* As Count, but the counter of the other kind of frame is left as it is.
Count_KeepsOther(st, in) ==
    IF IsGrayscaleImage(in)
    THEN [st EXCEPT !.consecutive_grayscale = Min(@ + 1, MaxCount)]
    ELSE [st EXCEPT !.consecutive_color = Min(@ + 1, MaxCount)]

\* The two counters after a frame.
Count(st, in) ==
    IF IsGrayscaleImage(in)
    THEN [st EXCEPT !.consecutive_grayscale = Min(@ + 1, MaxCount),
                    !.consecutive_color = 0]
    ELSE [st EXCEPT !.consecutive_color = Min(@ + 1, MaxCount),
                    !.consecutive_grayscale = 0]

\* As StableGrayscale, but one grayscale frame is enough.
StableGrayscale_Single(st) == st.consecutive_grayscale >= 1

StableGrayscale(st) == st.consecutive_grayscale >= RequiredConsecutiveFrames

\* As StableColor, but one color frame is enough.
StableColor_Single(st) == st.consecutive_color >= 1

StableColor(st) == st.consecutive_color >= RequiredConsecutiveFrames

\* WorkerBase.pause and WorkerBase.resume: the gate that _pause.wait() waits on.
Pause(st) == [Do(st, "pause") EXCEPT !.pause_gate = FALSE]
Resume(st) == [Do(st, "resume") EXCEPT !.pause_gate = TRUE]

\* The replay trigger of the relay.
TriggerReplay(st, in) ==
    IF ~st.obs_connected THEN Do(st, "replay_skipped")
    ELSE IF in.replay_raises THEN Do(Do(st, "replay"), "replay_error")
    ELSE Do(st, "replay")

\* As GrayscaleEntry, but a failed replay call leaves the worker paused.
GrayscaleEntry_ResumesAfterReplay(st, in) ==
    LET paused == [Pause(st) EXCEPT !.last_state = "gray"]
        called == TriggerReplay(Do(paused, "settle_wait"), in)
    IN  IF st.obs_connected /\ ~in.replay_raises THEN Resume(called) ELSE called

\* if stable_grayscale and last_state != True
GrayscaleEntry(st, in) ==
    LET paused == [Pause(st) EXCEPT !.last_state = "gray"]
    IN  Resume(TriggerReplay(Do(paused, "settle_wait"), in))

\* Part (A) of an iteration, for a frame with a saturation.
DetectStep(st, in) ==
    LET counted == Count(Do(st, "saturationChanged"), in)
    IN  IF StableGrayscale(counted) /\ counted.last_state # "gray"
        THEN GrayscaleEntry(counted, in)
        ELSE IF StableColor(counted) /\ counted.last_state # "color"
             THEN [counted EXCEPT !.last_state = "color"]
             ELSE counted

\* What a recv on the connection can give, with the state of the simulator
\* connection and whether the send to the simulator or the reply to the client
\* raises.
Reads ==
    { [kind |-> "empty"], [kind |-> "connection_error"], [kind |-> "error"] }
    \cup { [kind |-> "data", gspro_connected |-> g, send_raises |-> sr,
            reply_raises |-> rr] :
             g \in BOOLEAN, sr \in BOOLEAN, rr \in BOOLEAN }

\* As ForwardPayload, but the payload is shown to the UI before it is sent.
ForwardPayload_EmitsFirst(st, in) ==
    IF ~in.gspro_connected THEN st
    ELSE IF in.send_raises
         THEN Do(Do(Do(st, "relay_server_shot"), "gspro_send"), "shot_error")
         ELSE IF in.reply_raises
              THEN Do(Do(Do(Do(st, "relay_server_shot"), "gspro_send"),
                         "send_msg"), "shot_error")
              ELSE Do(Do(Do(st, "relay_server_shot"), "gspro_send"), "send_msg")

\* As ForwardPayload, but a failed send gives the connection up.
ForwardPayload_FailureCloses(st, in) ==
    IF ~in.gspro_connected THEN st
    ELSE IF in.send_raises
         THEN [Do(Do(st, "gspro_send"), "shot_error") EXCEPT !.flow = "break"]
         ELSE IF in.reply_raises
              THEN [Do(Do(Do(st, "gspro_send"), "send_msg"), "shot_error")
                       EXCEPT !.flow = "break"]
              ELSE Do(Do(Do(st, "gspro_send"), "send_msg"), "relay_server_shot")

\* if data: the payload goes to GSPro, the answer back to the client, the
\* payload to the UI; an exception on the way is reported by shot_error.
ForwardPayload(st, in) ==
    IF ~in.gspro_connected THEN st
    ELSE IF in.send_raises
         THEN Do(Do(st, "gspro_send"), "shot_error")
         ELSE IF in.reply_raises
              THEN Do(Do(Do(st, "gspro_send"), "send_msg"), "shot_error")
              ELSE Do(Do(Do(st, "gspro_send"), "send_msg"), "relay_server_shot")

\* As AfterRecv, but a connection error is passed on as a fatal one.
AfterRecv_ConnectionErrorRaises(st, in) ==
    IF in.kind = "data" THEN ForwardPayload(st, in)
    ELSE IF in.kind = "empty"
         THEN [Do(st, "disconnected") EXCEPT !.flow = "break"]
         ELSE [st EXCEPT !.flow = "raise"]

\* As AfterRecv, but the inner loop is left after every payload.
AfterRecv_OnePayloadPerConnection(st, in) ==
    IF in.kind = "data" THEN [ForwardPayload(st, in) EXCEPT !.flow = "break"]
    ELSE IF in.kind = "empty"
         THEN [Do(st, "disconnected") EXCEPT !.flow = "break"]
         ELSE IF in.kind = "connection_error"
              THEN [st EXCEPT !.flow = "break"]
              ELSE [st EXCEPT !.flow = "raise"]

\* One pass of the inner loop after recv: data is forwarded and the loop goes
\* on, an empty read and a ConnectionError leave the inner loop, every other
\* exception is raised again.
AfterRecv(st, in) ==
    IF in.kind = "data" THEN ForwardPayload(st, in)
    ELSE IF in.kind = "empty"
         THEN [Do(st, "disconnected") EXCEPT !.flow = "break"]
         ELSE IF in.kind = "connection_error"
              THEN [st EXCEPT !.flow = "break"]
              ELSE [st EXCEPT !.flow = "raise"]

\* except Exception ... finally: error is emitted, the socket closed and
\* finished emitted.
Fatal(did) == did \o <<"error", "close", "finished">>

\* The frames sampled so far, the last four of them.
FramesAfter(in) ==
    LET all == Append(relay_hist.frames, IsGrayscaleImage(in))
    IN  IF Len(all) > 4 THEN Tail(all) ELSE all

\* Whether two color frames in a row have been sampled since the detector
\* last paused (or it has not paused yet); did is what it did on this frame.
ArmedAfter(in, did) ==
    LET fs == FramesAfter(in)
        n == Len(fs)
    IN  IF \E i \in 1..Len(did) : did[i] = "pause" THEN FALSE
        ELSE IF n >= 2 /\ ~fs[n] /\ ~fs[n - 1] THEN TRUE
        ELSE relay_hist.armed

\* run() up to the loop: started, the wait on the gate, the OBS connection,
\* bind and listen.
RelayStart ==
    /\ relay_pc = "start"
    /\ pause_gate
    /\ \E oc \in BOOLEAN, bound \in BOOLEAN :
          /\ obs_connected' = oc
          /\ IF bound
             THEN /\ relay_pc' = "detect"
                  /\ relay_acts' = <<"started", "listening">>
                  /\ relay_step' = [kind |-> "start"]
             ELSE /\ relay_pc' = "done"
                  /\ relay_acts' = Fatal(<<"started">>)
                  /\ relay_step' = [kind |-> "fatal"]
    /\ UNCHANGED <<relay_last_state, consecutive_grayscale, consecutive_color,
                   connection, pause_gate, relay_shutdown, relay_hist>>
    /\ UNCHANGED <<worker_vars, loop_vars>>

\* Part (A) of an iteration: the loop condition holds, a frame is grabbed and
\* the detector acts on it.
Detect ==
    /\ relay_pc = "detect"
    /\ ~relay_shutdown
    /\ \E in \in Frames :
          LET before == [last_state |-> relay_last_state,
                         consecutive_grayscale |-> consecutive_grayscale,
                         consecutive_color |-> consecutive_color,
                         pause_gate |-> pause_gate,
                         armed |-> relay_hist.armed]
              after == IF in.kind = "frame" THEN DetectStep(Detector, in)
                       ELSE Detector
          IN  /\ relay_step' = [kind |-> IF in.kind = "frame" THEN "frame"
                                         ELSE "fatal",
                                in |-> in, before |-> before,
                                pause_gate |-> after.pause_gate]
              /\ relay_pc' = IF in.kind = "frame" THEN "accept" ELSE "done"
              /\ relay_acts' = IF in.kind = "frame" THEN after.acts
                               ELSE Fatal(<<>>)
              /\ relay_last_state' = after.last_state
              /\ consecutive_grayscale' = after.consecutive_grayscale
              /\ consecutive_color' = after.consecutive_color
              /\ pause_gate' = after.pause_gate
              /\ relay_hist' = IF in.kind = "frame"
                               THEN [relay_hist EXCEPT
                                        !.frames = FramesAfter(in),
                                        !.armed = ArmedAfter(in, after.acts)]
                               ELSE relay_hist
    /\ UNCHANGED <<obs_connected, connection, relay_shutdown>>
    /\ UNCHANGED <<worker_vars, loop_vars>>

\* The loop condition fails: the socket is closed and finished is emitted.
RelayFinish ==
    /\ relay_pc = "detect"
    /\ relay_shutdown
    /\ relay_pc' = "done"
    /\ relay_acts' = <<"close", "finished">>
    /\ relay_step' = [kind |-> "finish"]
    /\ UNCHANGED <<obs_connected, relay_last_state, consecutive_grayscale,
                   consecutive_color, connection, pause_gate, relay_shutdown,
                   relay_hist>>
    /\ UNCHANGED <<worker_vars, loop_vars>>

\* Part (B): self._socket.accept() times out, gives a connection, or raises.
Accept ==
    /\ relay_pc = "accept"
    /\ \E out \in {"timeout", "connection", "error"} :
          /\ out = "connection" => relay_hist.accepted < MaxConnections
          /\ relay_step' = [kind |-> IF out = "error" THEN "fatal" ELSE "accept",
                            out |-> out, before |-> relay_hist]
          /\ relay_pc' = CASE out = "timeout" -> "sleep"
                           [] out = "connection" -> "inner"
                           [] OTHER -> "done"
          /\ relay_acts' = CASE out = "timeout" -> <<>>
                             [] out = "connection" -> <<"connected">>
                             [] OTHER -> Fatal(<<>>)
          /\ connection' = IF out = "connection"
                           THEN [id |-> relay_hist.accepted + 1]
                           ELSE connection
          /\ relay_hist' = IF out = "connection"
                           THEN [relay_hist EXCEPT
                                   !.accepted = @ + 1,
                                   !.live = @ \cup {relay_hist.accepted + 1},
                                   !.failed = FALSE]
                           ELSE relay_hist
    /\ UNCHANGED <<obs_connected, relay_last_state, consecutive_grayscale,
                   consecutive_color, pause_gate, relay_shutdown>>
    /\ UNCHANGED <<worker_vars, loop_vars>>

\* The test of the inner loop: it ends when shutdown is set, and goes on to
\* the wait on the gate otherwise.
InnerTop ==
    /\ relay_pc = "inner"
    /\ IF relay_shutdown
       THEN relay_pc' = "sleep" /\ relay_step' = [kind |-> "inner_exit"]
       ELSE relay_pc' = "gate" /\ relay_step' = [kind |-> "inner_pass"]
    /\ relay_acts' = <<>>
    /\ UNCHANGED <<obs_connected, relay_last_state, consecutive_grayscale,
                   consecutive_color, connection, pause_gate, relay_shutdown,
                   relay_hist>>
    /\ UNCHANGED <<worker_vars, loop_vars>>

\* self._pause.wait() in the inner loop: it returns once the gate is open,
\* has no timeout and does not look at the shutdown flag.
GateWait ==
    /\ relay_pc = "gate"
    /\ pause_gate
    /\ relay_pc' = "recv"
    /\ relay_step' = [kind |-> "gate"]
    /\ relay_acts' = <<>>
    /\ UNCHANGED <<obs_connected, relay_last_state, consecutive_grayscale,
                   consecutive_color, connection, pause_gate, relay_shutdown,
                   relay_hist>>
    /\ UNCHANGED <<worker_vars, loop_vars>>

\* self.connection.recv(1024) returns or raises, and the pass of the inner
\* loop runs to its end.
Recv ==
    /\ relay_pc = "recv"
    /\ \E in \in Reads :
          LET after == AfterRecv([acts |-> <<>>, flow |-> "continue"], in)
          IN  /\ relay_step' = [kind |-> IF after.flow = "raise" THEN "fatal"
                                         ELSE "recv",
                                in |-> in, before |-> relay_hist,
                                connection |-> connection]
              /\ relay_pc' = CASE after.flow = "continue" -> "inner"
                               [] after.flow = "break" -> "sleep"
                               [] OTHER -> "done"
              /\ relay_acts' = IF after.flow = "raise" THEN Fatal(after.acts)
                               ELSE after.acts
              /\ relay_hist' =
                    IF in.kind \in {"empty", "connection_error"}
                    THEN [relay_hist EXCEPT !.live = @ \ {connection.id}]
                    ELSE IF in.kind = "data"
                         THEN [relay_hist EXCEPT !.failed =
                                  in.gspro_connected
                                  /\ (in.send_raises \/ in.reply_raises)]
                         ELSE relay_hist
    /\ UNCHANGED <<obs_connected, relay_last_state, consecutive_grayscale,
                   consecutive_color, connection, pause_gate, relay_shutdown>>
    /\ UNCHANGED <<worker_vars, loop_vars>>

\* time.sleep(self.check_interval) at the end of an iteration.
PollSleep ==
    /\ relay_pc = "sleep"
    /\ relay_pc' = "detect"
    /\ relay_acts' = <<>>
    /\ relay_step' = NoStep
    /\ UNCHANGED <<obs_connected, relay_last_state, consecutive_grayscale,
                   consecutive_color, connection, pause_gate, relay_shutdown,
                   relay_hist>>
    /\ UNCHANGED <<worker_vars, loop_vars>>

\* The main window pauses and resumes the launch monitor.
ExternalPause ==
    /\ relay_pc # "done"
    /\ pause_gate
    /\ pause_gate' = FALSE
    /\ UNCHANGED <<relay_pc, obs_connected, relay_last_state,
                   consecutive_grayscale, consecutive_color, connection,
                   relay_shutdown, relay_acts, relay_step, relay_hist>>
    /\ UNCHANGED <<worker_vars, loop_vars>>

ExternalResume ==
    /\ relay_pc # "done"
    /\ ~pause_gate
    /\ pause_gate' = TRUE
    /\ UNCHANGED <<relay_pc, obs_connected, relay_last_state,
                   consecutive_grayscale, consecutive_color, connection,
                   relay_shutdown, relay_acts, relay_step, relay_hist>>
    /\ UNCHANGED <<worker_vars, loop_vars>>

\* The main window shuts the launch monitor down.
RelayShutdown ==
    /\ relay_pc # "done"
    /\ ~relay_shutdown
    /\ relay_shutdown' = TRUE
    /\ UNCHANGED <<relay_pc, obs_connected, relay_last_state,
                   consecutive_grayscale, consecutive_color, connection,
                   pause_gate, relay_acts, relay_step, relay_hist>>
    /\ UNCHANGED <<worker_vars, loop_vars>>

RelayNext ==
    \/ RelayStart \/ Detect \/ RelayFinish \/ Accept \/ InnerTop \/ GateWait
    \/ Recv \/ PollSleep \/ ExternalPause \/ ExternalResume \/ RelayShutdown

SpecRelay == Init /\ [][RelayNext]_vars

\* The relay server with its scheduling: the thread of run() goes on with
\* every step that waits for nothing outside it (the tests of the two loops,
\* the frame grab, the sleeps), the wait on the gate ends if the gate stays
\* open, and accept ends because the listening socket has a timeout of 1 s.
\* The recv on the accepted connection has no timeout: whether it returns is
\* up to the client, so nothing is assumed of it.
RelayFairness ==
    /\ WF_vars(RelayStart) /\ WF_vars(Detect) /\ WF_vars(RelayFinish)
    /\ WF_vars(Accept) /\ WF_vars(InnerTop) /\ WF_vars(GateWait)
    /\ WF_vars(PollSleep)

SpecRelayFair == Init /\ [][RelayNext]_vars /\ RelayFairness

(***************************************************************************)
(* Vocabulary of the properties: the call in progress and what it found.   *)
(***************************************************************************)
Called == call # NoCall
Reading == call.screenshot.balldata
NewReading == Called /\ call.screenshot.screenshot_new /\ call.screenshot.new_shot
\* A good new reading that is a delayed update.
GoodUpdate == NewReading /\ Reading.good_shot /\ Reading.delayed_metrics_update
\* A good new reading that is no delayed update.
FilteredCall == Called /\ Filtered(call.screenshot)
PendingAtCall == Called /\ call.pending_shot # None
ExpiredAtCall ==
    /\ PendingAtCall
    /\ TotalTicks(call.pending_shot_started)
          >= DelayedMetricsTimeoutSeconds * TicksPerSecond
LiveAtCall == PendingAtCall /\ ~ExpiredAtCall
ShotSignals == SelectSeq(signals, LAMBDA s : s.signal = "shot")
\* The reading as a full shot: what __handle_good_shot sends downstream.
AsFullShot(b) == [b EXCEPT !.contains_ball_data = TRUE,
                           !.contains_club_data = TRUE,
                           !.club_data_only = FALSE]
\* u carries the ball metrics of p and the delayed fields of b, club-only.
IsClubOnlyMerge(u, p, b) ==
    /\ u.ball = p.ball
    /\ u.angle_of_attack = b.angle_of_attack
    /\ u.club_path = b.club_path
    /\ ~u.contains_ball_data
    /\ u.contains_club_data
    /\ u.club_data_only
\* The call sent the reading downstream as a full shot, and nothing else.
ForwardedFull == signals = <<[signal |-> "shot", payload |-> AsFullShot(Reading)]>>
\* The ghost filter decides the call's reading by the 5 s rule: a good shot
\* came before, and the whole seconds that the filter compares put the elapsed
\* time on the side of 5 s it is on.
DecidedByGapRule ==
    /\ Called
    /\ call.had_good_shot
    /\ (TimedeltaSeconds(call.time_of_last_shot) <= GhostWindowSeconds)
          <=> WithinGhostWindow(call.time_of_last_shot)
\* The call sent nothing downstream and reported a ghost shot.
IgnoredAsGhost == Len(ShotSignals) = 0 /\ Len(signals) > 0
                  /\ signals[1].signal = "same_shot"

(***************************************************************************)
(* Properties.                                                             *)
(***************************************************************************)
\* C1: a good delayed update that finds a pending shot cached less than the
\* timeout ago makes the call emit exactly one signal, a club-only shot with
\* the pending shot's ball metrics and the update's angle of attack and club
\* path, ball-data flag cleared, club-data and club-only flags set, and leaves
\* the pending cache empty.
C1_MergeWithinTimeout ==
    (GoodUpdate /\ LiveAtCall) =>
        /\ Len(signals) = 1
        /\ signals[1].signal = "shot"
        /\ IsClubOnlyMerge(signals[1].payload, call.pending_shot, Reading)
        /\ pending_shot = None
        /\ pending_shot_started = None

\* The update arrives one second after the caching, with other ball metrics
\* and other club metrics than the cached shot has.
C1_Witness ==
    /\ GoodUpdate /\ LiveAtCall
    /\ TotalTicks(call.pending_shot_started) = TicksPerSecond
    /\ Len(ClubOnlyShots(signals)) = 1
    /\ Reading.ball # call.pending_shot.ball
    /\ Reading.angle_of_attack # call.pending_shot.angle_of_attack
    /\ Reading.club_path # call.pending_shot.club_path

\* C2: every club-only shot sent downstream is sent by a good delayed update
\* and carries the ball metrics of the shot that was pending when the update
\* arrived, with the update's delayed fields; and the pending shot is only ever
\* the good reading flagged as pending that the latest caching call read: a
\* call leaves the pending shot as it found it, empties the cache, or caches
\* its own such reading.
C2_ClubOnlyCarriesCachedShot ==
    Called =>
        /\ \A i \in 1..Len(signals) :
              (signals[i].signal = "shot" /\ signals[i].payload.club_data_only)
              => /\ GoodUpdate /\ PendingAtCall
                 /\ IsClubOnlyMerge(signals[i].payload, call.pending_shot, Reading)
        /\ pending_shot # None =>
              \/ pending_shot = call.pending_shot
              \/ /\ FilteredCall
                 /\ Reading.delayed_metrics_pending
                 /\ pending_shot.oid = Reading.oid
                 /\ pending_shot.ball = Reading.ball
                 /\ pending_shot.angle_of_attack = Reading.angle_of_attack
                 /\ pending_shot.club_path = Reading.club_path

\* A club-only shot goes out for a cached shot that the ghost filter had
\* ignored, with ball metrics that the update itself does not have.
C2_Witness ==
    /\ GoodUpdate
    /\ Len(ClubOnlyShots(signals)) = 1
    /\ ClubOnlyShots(signals)[1].payload.ball # Reading.ball
    /\ ~call.pending_shot.contains_ball_data

\* C3: a call of do_screenshot emits the shot signal at most once.
C3_AtMostOneShotPerCall == Called => Len(ShotSignals) <= 1

\* A call that found an expired pending shot sends its own reading downstream.
C3_Witness ==
    /\ ExpiredAtCall
    /\ FilteredCall
    /\ Len(ShotSignals) = 1
    /\ call.shot_count > 0

\* C4 (as amended): a call that finds a pending shot cached at least the
\* timeout ago (3 s included) drops it: no club-only shot is sent, a delayed
\* update emits nothing and leaves the cache empty, the shot pending after the
\* call can only be the call's own reading, and a good shot that is no update
\* is either sent as a full shot that is the reading itself or ignored as a
\* ghost shot.
C4_TimedOutPendingDropped ==
    ExpiredAtCall =>
        /\ Len(ClubOnlyShots(signals)) = 0
        /\ GoodUpdate => (signals = <<>> /\ pending_shot = None)
        /\ pending_shot # None =>
              (FilteredCall /\ pending_shot.oid = Reading.oid)
        /\ FilteredCall => (ForwardedFull \/ IgnoredAsGhost)

\* C4 as stated: moreover every good shot that is no update, read by a call
\* that finds the pending shot expired, is sent downstream as a full shot
\* (looked at where the ghost filter decides by the 5 s rule, see C10).
C4_Original ==
    /\ C4_TimedOutPendingDropped
    /\ (ExpiredAtCall /\ FilteredCall /\ DecidedByGapRule) => ForwardedFull

\* A delayed update arrives exactly 3 s after the caching and is dropped.
C4_Witness ==
    /\ ExpiredAtCall
    /\ TotalTicks(call.pending_shot_started)
          = DelayedMetricsTimeoutSeconds * TicksPerSecond
    /\ GoodUpdate
    /\ signals = <<>>
    /\ pending_shot = None

\* C5: a good delayed update that finds no pending shot emits no shot signal,
\* and the pending cache stays empty.
C5_OrphanUpdateDropped ==
    (GoodUpdate /\ ~PendingAtCall) =>
        /\ Len(ShotSignals) = 0
        /\ pending_shot = None
        /\ pending_shot_started = None

\* The orphan update even has its pending flag set, and is not cached.
C5_Witness ==
    /\ GoodUpdate /\ ~PendingAtCall
    /\ Reading.delayed_metrics_pending
    /\ signals = <<>>
    /\ pending_shot = None

\* C6 (as amended): a good new reading flagged as pending that is no update
\* becomes the pending shot, cached now, in place of any shot pending before;
\* the only shot the call can send downstream is the reading itself, as a full
\* shot, which it does unless the ghost filter ignores the reading.
C6_PendingReadingCached ==
    (FilteredCall /\ Reading.delayed_metrics_pending) =>
        /\ pending_shot # None
        /\ pending_shot.oid = Reading.oid
        /\ pending_shot.ball = Reading.ball
        /\ pending_shot_started = Now
        /\ ForwardedFull \/ IgnoredAsGhost

\* C6 as stated: moreover the reading is not sent downstream by that call.
C6_Original ==
    /\ C6_PendingReadingCached
    /\ (FilteredCall /\ Reading.delayed_metrics_pending) => Len(ShotSignals) = 0

\* The reading replaces a shot that was still pending, with other metrics.
C6_Witness ==
    /\ FilteredCall /\ Reading.delayed_metrics_pending
    /\ LiveAtCall
    /\ call.pending_shot.ball # Reading.ball
    /\ pending_shot.oid = Reading.oid
    /\ Len(ShotSignals) = 0

C8_BadShotOnlyRejected ==
    (NewReading /\ ~Reading.good_shot) =>
        /\ signals = <<[signal |-> "bad_shot", payload |-> Reading]>>
        /\ pending_shot =
              (IF ExpiredAtCall THEN None ELSE call.pending_shot)

\* A bad reading with both delayed flags set meets a pending shot and leaves it.
C8_Witness ==
    /\ NewReading /\ ~Reading.good_shot
    /\ Reading.delayed_metrics_update /\ Reading.delayed_metrics_pending
    /\ LiveAtCall
    /\ pending_shot = call.pending_shot
    /\ Len(signals) = 1

\* C9: in a burst of good shots that starts with a shot sent downstream and
\* in which each shot follows the one before within 5 s, the second and the
\* third shot only emit same_shot, the fourth emits same_shot and then
\* too_many_ghost_shots, and the counter is 0 after the fourth.
C9_GhostBurst ==
    FilteredCall =>
        /\ burst \in {2, 3} =>
              signals = <<[signal |-> "same_shot", payload |-> None]>>
        /\ burst = 4 =>
              /\ signals = <<[signal |-> "same_shot", payload |-> None],
                             [signal |-> "too_many_ghost_shots", payload |-> None]>>
              /\ shot_count = 0

\* The fourth shot of a burst, 5 s after the third.
C9_Witness ==
    /\ FilteredCall
    /\ burst = 4
    /\ TotalTicks(call.time_of_last_shot) = GhostWindowSeconds * TicksPerSecond
    /\ Len(signals) = 2

\* C10: a good shot that is no update is sent downstream exactly when more
\* than 5 s have passed since the previous good shot, the first good shot of a
\* worker included, and is ignored as a ghost shot otherwise.
C10_GapRule ==
    FilteredCall =>
        LET accepted == ~call.had_good_shot
                        \/ ~WithinGhostWindow(call.time_of_last_shot)
        IN  /\ accepted => ForwardedFull
            /\ ~accepted => IgnoredAsGhost

\* C11: every good shot that goes through the ghost filter restarts the 5 s
\* window, whether it is sent downstream, ignored or warned about; and a good
\* shot read within 5 s of the good shot before it (sent downstream or not) is
\* never sent downstream, so that a stream of good shots each within 5 s of
\* its predecessor has no second accepted shot.
C11_WindowFromPrecedingGoodShot ==
    FilteredCall =>
        /\ time_of_last_shot = Now
        /\ (call.had_good_shot /\ WithinGhostWindow(call.since_good_shot)) =>
              IgnoredAsGhost

\* The shot after the warning: the counter was back at 0, the shot before it
\* was not sent downstream, and the shot is still ignored.
C11_Witness ==
    /\ FilteredCall
    /\ call.had_good_shot
    /\ WithinGhostWindow(call.since_good_shot)
    /\ call.shot_count = 0
    /\ burst = 0
    /\ IgnoredAsGhost
\* The call warned the user of too many ghost shots.
Warned == \E i \in 1..Len(signals) : signals[i].signal = "too_many_ghost_shots"

\* C34: the ghost counter is 0, 1 or 2 after every call; the filter warns
\* of too many ghost shots exactly on the call that ignores a shot with the
\* counter at 2, which takes it to 3; and the counter is 0 after a warning and
\* after a shot that is sent downstream.
C34_GhostCounterBound ==
    /\ shot_count \in 0..GhostWarnCount
    /\ Called =>
          (Warned <=> (FilteredCall /\ IgnoredAsGhost
                       /\ call.shot_count + 1 = GhostWarnCount + 1))
    /\ (Called /\ Warned) => shot_count = 0
    /\ (FilteredCall /\ Len(ShotSignals) > 0) => shot_count = 0
    /\ (FilteredCall /\ IgnoredAsGhost /\ ~Warned) =>
          shot_count = call.shot_count + 1

C34_Witness ==
    /\ FilteredCall /\ Warned
    /\ call.shot_count = GhostWarnCount
    /\ shot_count = 0
    /\ Reading.delayed_metrics_pending

\* C35: a club-only shot is sent downstream only for a pending shot that was
\* itself sent downstream as a full shot (__handle_good_shot marks the shot it
\* sends, in place, with contains_ball_data).  Looked at where the pending
\* shot followed a shot that was sent within 5 s, so that the ghost filter had
\* to ignore it.
C35_ClubOnlyFollowsFullShot ==
    (Called /\ Len(ClubOnlyShots(signals)) > 0 /\ burst >= 2) =>
        call.pending_shot # None /\ call.pending_shot.contains_ball_data

\* C36: the pending shot and the time at which it was cached are both set or
\* both unset; both are unset after a club-only shot was sent, and after a
\* pending shot timed out they are unset or belong to the shot that the same
\* call has just cached.
C36_PendingCacheWellFormed ==
    /\ (pending_shot = None) <=> (pending_shot_started = None)
    /\ (Called /\ Len(ClubOnlyShots(signals)) > 0) =>
          pending_shot = None /\ pending_shot_started = None
    /\ ExpiredAtCall =>
          \/ pending_shot = None /\ pending_shot_started = None
          \/ /\ FilteredCall /\ Reading.delayed_metrics_pending
             /\ pending_shot.oid = Reading.oid
             /\ pending_shot.oid # call.pending_shot.oid
             /\ pending_shot_started = Now

C36_Witness ==
    /\ ExpiredAtCall
    /\ ~call.screenshot.screenshot_new
    /\ pending_shot = None /\ pending_shot_started = None

\* C37: a call whose reading is no fresh good shot (an unchanged screenshot,
\* the shot seen before, a bad reading, a delayed update) leaves the ghost
\* counter and the time of the last shot as they were and warns of nothing.
C37_OtherReadingsLeaveFilter ==
    (Called /\ ~Filtered(call.screenshot)) =>
        /\ shot_count = call.shot_count
        /\ time_of_last_shot = call.time_of_last_shot
        /\ ~Warned

C37_Witness ==
    /\ Called /\ ~Filtered(call.screenshot)
    /\ call.screenshot.screenshot_new /\ ~call.screenshot.new_shot
    /\ call.shot_count = GhostWarnCount
    /\ WithinGhostWindow(call.time_of_last_shot)
    /\ TotalTicks(call.time_of_last_shot) > 0
    /\ shot_count = GhostWarnCount
(***************************************************************************)
(* Vocabulary of the loop's properties: the iteration that just ran.       *)
(***************************************************************************)
\* An iteration has just sampled a saturation.
Sampled == pc = "sleep" /\ sample.kind = "saturation"

\* The iteration did a.
Did(a) == \E i \in 1..Len(acts) : acts[i] = a

\* How often the iteration did a.
Times(a) == Len(SelectSeq(acts, LAMBDA x : x = a))

\* The sample is in the shot band and not the unpopulated 0.
ShotSample ==
    /\ sample.in.saturation < sample.in.shot_threshold
    /\ sample.in.saturation # 0

\* The iteration ran no capture, full or partial, and did not try one.
NoCapture ==
    /\ ~Did("do_screenshot")
    /\ ~Did("do_screenshot_partial")
    /\ ~Did("partial_capture_error")

\* C12: a sampled saturation below the shot threshold and not 0 takes the
\* capture action; one from the shot threshold to the OBS high threshold takes
\* the club-wait action (no full capture); one above the OBS high threshold
\* (and not below the shot threshold, which can only be when the thresholds are
\* out of order) takes the pause action (pause unless already paused, no
\* capture); with shot threshold < OBS high threshold every sample is in
\* exactly one of capture, zero, club-wait and pause.
C12_BandClassification ==
    Sampled =>
        /\ ShotSample => sample.branch = "capture" /\ Did("do_screenshot")
        /\ InWindow(sample.in) =>
              sample.branch = "club_wait" /\ ~Did("do_screenshot")
        /\ AboveWindow(sample.in) => sample.branch = "paused" /\ NoCapture
        /\ sample.in.shot_threshold < sample.in.obs_high_threshold =>
              /\ sample.in.saturation > sample.in.obs_high_threshold =>
                    sample.branch = "paused"
              /\ sample.branch = "capture" <=> ShotSample
              /\ sample.branch = "club_wait" <=> InWindow(sample.in)
              /\ sample.branch = "paused" <=>
                    sample.in.saturation > sample.in.obs_high_threshold

C12_Witness ==
    /\ Sampled
    /\ sample.in.shot_threshold < sample.in.obs_high_threshold
    /\ sample.in.saturation = sample.in.obs_high_threshold
    /\ sample.branch = "club_wait"
    /\ sample.before.last_state = "shot"

\* C13 as stated: a sample equal to the shot threshold is classified as a
\* capture, one equal to the OBS high threshold as club-wait (looked at where
\* the thresholds are in order).
C13_Original ==
    (Sampled /\ sample.in.shot_threshold <= sample.in.obs_high_threshold) =>
        /\ sample.in.saturation = sample.in.shot_threshold =>
              sample.branch = "capture"
        /\ sample.in.saturation = sample.in.obs_high_threshold =>
              sample.branch = "club_wait"

\* C13: with shot threshold <= OBS high threshold, a sample equal to the shot
\* threshold and a sample equal to the OBS high threshold are both classified
\* club-wait; a sample equal to the shot threshold is never a capture.
C13_BoundariesAreClubWait ==
    Sampled =>
        /\ sample.in.saturation = sample.in.shot_threshold =>
              /\ sample.branch # "capture"
              /\ ~Did("do_screenshot")
        /\ sample.in.shot_threshold <= sample.in.obs_high_threshold =>
              /\ sample.in.saturation = sample.in.shot_threshold =>
                    sample.branch = "club_wait"
              /\ sample.in.saturation = sample.in.obs_high_threshold =>
                    sample.branch = "club_wait"

C13_Witness ==
    /\ Sampled
    /\ sample.in.saturation = sample.in.shot_threshold
    /\ sample.in.shot_threshold < sample.in.obs_high_threshold
    /\ sample.branch = "club_wait"

\* C14: a sample of exactly 0 does nothing and changes nothing: no capture, no
\* resume, no pause, and last_state, the club-scan timer and the timed-out
\* flag are as before the tick.
C14_ZeroSampleIgnored ==
    (Sampled /\ sample.in.saturation = 0) =>
        /\ NoCapture /\ ~Did("resume") /\ ~Did("pause")
        /\ last_state = sample.before.last_state
        /\ club_scan_started_at = sample.before.club_scan_started_at
        /\ club_scan_timed_out = sample.before.club_scan_timed_out
\* The stay in the club-scan window that the tick found had lasted more than
\* the club-scan timeout since its first tick.
StayedTooLong ==
    /\ InWindow(sample.in)
    /\ sample.before.stay.in
    /\ sample.before.stay.elapsed > ClubScanTimeoutSeconds * TicksPerSecond

\* C15: on a tick inside the window that comes more than 6 s after the first
\* tick of the uninterrupted stay, the timed-out flag is set (with a pause on
\* the tick that sets it), and there is no capture, full or partial, and no
\* replay trigger on that tick nor on any later tick of the stay.
C15_ClubScanTimeout ==
    (Sampled /\ StayedTooLong) =>
        /\ club_scan_timed_out
        /\ ~sample.before.club_scan_timed_out => Did("pause")
        /\ last_state = "pause"
        /\ NoCapture
        /\ Attempts(acts) = 0 /\ ~Did("hotkey") /\ ~Did("hotkey_skipped")

C15_Witness ==
    /\ Sampled /\ StayedTooLong
    /\ sample.before.club_scan_timed_out
    /\ club_scan_timed_out
    /\ acts = <<"saturationChanged">>

\* C16 as stated: the first tick below the shot threshold that finds the scan
\* timed out clears the flag and the timer, emits resume and captures.
C16_Original ==
    (/\ Sampled /\ sample.before.club_scan_timed_out
     /\ sample.in.saturation < sample.in.shot_threshold) =>
        /\ ~club_scan_timed_out /\ club_scan_started_at = None
        /\ Did("resume") /\ Did("do_screenshot")

\* C16: a tick with a saturation below the shot threshold and not 0 that finds
\* the scan timed out clears the flag and the timer, emits resume and then
\* captures, on that same tick; a sample of 0 neither resumes nor captures.
C16_RecoveryFromTimeout ==
    (/\ Sampled /\ sample.before.club_scan_timed_out
     /\ sample.in.saturation < sample.in.shot_threshold) =>
        IF sample.in.saturation # 0
        THEN /\ ~club_scan_timed_out /\ club_scan_started_at = None
             /\ Len(acts) >= 3
             /\ acts[2] = "resume" /\ acts[3] = "do_screenshot"
             /\ last_state = "shot"
        ELSE ~Did("resume") /\ NoCapture

C16_Witness ==
    /\ Sampled /\ sample.before.club_scan_timed_out
    /\ ShotSample
    /\ ~club_scan_timed_out
    /\ Did("resume") /\ Did("do_screenshot")

\* C17: every club-wait tick that is not timed out runs the partial capture
\* through do_screenshot.
C17_PartialCaptureRuns ==
    (Sampled /\ sample.branch = "club_wait" /\ ~club_scan_timed_out) =>
        Did("do_screenshot_partial")

\* C18 as stated: the trigger is attempted on the first tick of a stay in the
\* window, and on no later tick of the same stay.
C18_Original ==
    (Sampled /\ InWindow(sample.in)) =>
        IF sample.before.stay.in THEN Attempts(acts) = 0 ELSE Attempts(acts) = 1

\* C18: on a tick inside the window the trigger is attempted (once) exactly
\* when the scan is not timed out and the remembered last state is not the
\* hotkey: that is so on the first tick of a stay unless only samples of 0 lie
\* between it and an earlier stay; it is never attempted on a later tick of
\* the same stay, whether the call went through, raised or was skipped.
C18_HotkeyOncePerStay ==
    (Sampled /\ InWindow(sample.in)) =>
        /\ Attempts(acts) <= 1
        /\ Attempts(acts) = 1 <=>
              /\ ~sample.before.club_scan_timed_out
              /\ ~club_scan_timed_out
              /\ sample.before.last_state # "hotkey"
        /\ sample.before.stay.in => Attempts(acts) = 0
        /\ (~sample.before.stay.in /\ sample.before.last_state # "hotkey") =>
              Attempts(acts) = 1
        /\ Attempts(acts) = 1 =>
              Times("hotkey") + Times("hotkey_skipped") = 1

C18_Witness ==
    /\ Sampled /\ InWindow(sample.in)
    /\ sample.before.stay.in /\ sample.before.stay.triggers = 1
    /\ sample.before.last_state = "hotkey"
    /\ ws = "connected"
    /\ Attempts(acts) = 0
    /\ ~club_scan_timed_out

\* C19: every tick with a saturation below the shot threshold and not 0 runs
\* do_screenshot once, whatever the state before; resume is emitted, before
\* the capture, exactly when the remembered last state is the pause.
C19_ContinuousCapture ==
    (Sampled /\ ShotSample) =>
        /\ Times("do_screenshot") = 1
        /\ Did("resume") <=> sample.before.last_state = "pause"
        /\ Did("resume") => acts[2] = "resume" /\ acts[3] = "do_screenshot"
        /\ ~Did("pause")

C19_Witness ==
    /\ Sampled /\ ShotSample
    /\ sample.before.last_state = "shot"
    /\ Times("do_screenshot") = 1 /\ ~Did("resume")

\* C20 as stated: a tick above the window that follows a sampled tick not
\* above it emits pause; a tick above the window that follows one above it
\* emits no pause and captures nothing.
C20_Original ==
    (Sampled /\ AboveWindow(sample.in)) =>
        IF sample.before.stay.above
        THEN ~Did("pause") /\ NoCapture
        ELSE Did("pause")

\* C20: a tick above the window emits pause exactly when the remembered last
\* state is not the pause (so not after a timed-out club scan, and not when
\* only samples of 0 lie between it and an earlier pause), and captures
\* nothing; a tick above the window that follows one above it emits no pause.
C20_PauseOnEntry ==
    (Sampled /\ AboveWindow(sample.in)) =>
        /\ Did("pause") <=> sample.before.last_state # "pause"
        /\ NoCapture
        /\ last_state = "pause"
        /\ sample.before.stay.above => ~Did("pause")

C20_Witness ==
    /\ Sampled /\ AboveWindow(sample.in)
    /\ ~sample.before.stay.above
    /\ sample.before.club_scan_timed_out
    /\ ~Did("pause")
\* The loop's state after the iteration, had the capture and the hotkey call
\* of the iteration not raised.
WithoutRaise ==
    LoopBody([last_state |-> sample.before.last_state,
              club_scan_started_at |-> sample.before.club_scan_started_at,
              club_scan_timed_out |-> sample.before.club_scan_timed_out,
              ws |-> ws, acts |-> <<>>, branch |-> "none"],
             [sample.in EXCEPT !.capture_raises = FALSE,
                               !.hotkey_raises = FALSE])

\* C21: an iteration in which do_screenshot or the hotkey call raised ends as
\* every other iteration, at the sleep of the next one, with the state the
\* loop would have without the exception; and the iteration after one that
\* caught an exception classifies its sample as any other.
C21_CaughtExceptionsDoNotStop ==
    /\ (sample.kind = "saturation" /\ Caught(acts) # {}) =>
          /\ pc = "sleep"
          /\ last_state = WithoutRaise.last_state
          /\ club_scan_started_at = WithoutRaise.club_scan_started_at
          /\ club_scan_timed_out = WithoutRaise.club_scan_timed_out
          /\ sample.branch = WithoutRaise.branch
    /\ (Sampled /\ sample.before.caught # {}) =>
          /\ ShotSample => sample.branch = "capture" /\ Did("do_screenshot")
          /\ InWindow(sample.in) => sample.branch = "club_wait"
          /\ AboveWindow(sample.in) => sample.branch = "paused"

C21_Witness ==
    /\ Sampled
    /\ {"capture_error", "hotkey_error"} \cap sample.before.caught # {}
    /\ ShotSample
    /\ sample.in.capture_raises
    /\ Did("capture_error")
    /\ sample.branch = "capture"

\* C22: a tick on which the screen capture or the saturation computation fails
\* is skipped: nothing is done, no state of the loop changes, and the loop goes
\* on to the next tick.
C22_SensorErrorsSkipped ==
    sample.kind \in {"grab_failed", "no_saturation"} =>
        /\ pc = "sleep"
        /\ acts = <<>>
        /\ last_state = sample.before.last_state
        /\ club_scan_started_at = sample.before.club_scan_started_at
        /\ club_scan_timed_out = sample.before.club_scan_timed_out

\* C23: after an unhandled exception inside the main loop the loop is over
\* and finished has been emitted, in the local and in the relay variant.
C23_FinishedAfterFatalError ==
    /\ pc = "crashed" => Did("finished")
    /\ (relay_pc = "done" /\ relay_step.kind = "fatal") =>
          \E i \in 1..Len(relay_acts) : relay_acts[i] = "finished"
\* C38: while the club-scan timed-out flag is set, the last state is "pause"
\* and the club-scan timer is set; a tick whose saturation is outside the
\* window clears the flag and the timer.
C38_TimedOutFlagConsistent ==
    /\ club_scan_timed_out =>
          last_state = "pause" /\ club_scan_started_at # None
    /\ (Sampled /\ ~InWindow(sample.in)) =>
          ~club_scan_timed_out /\ club_scan_started_at = None

C38_Witness ==
    /\ Sampled /\ sample.in.saturation = 0
    /\ sample.before.club_scan_timed_out
    /\ sample.before.club_scan_started_at # None
    /\ ~club_scan_timed_out /\ club_scan_started_at = None
    /\ last_state = "pause"

\* C39: whatever the two thresholds are, a sample takes the one branch that
\* the three tests give it in their order; with the shot threshold above the
\* OBS threshold no sample is club-wait (below the shot threshold it is a
\* capture, else it is paused), so there is no hotkey, no partial capture and
\* no club-scan timeout.
C39_MisconfiguredThresholds ==
    Sampled =>
        LET in == sample.in
        IN  /\ sample.branch =
                  IF in.saturation < in.shot_threshold
                  THEN IF in.saturation = 0 THEN "zero" ELSE "capture"
                  ELSE IF in.saturation <= in.obs_high_threshold
                       THEN "club_wait" ELSE "paused"
            /\ in.shot_threshold > in.obs_high_threshold =>
                  /\ sample.branch # "club_wait"
                  /\ in.saturation >= in.shot_threshold =>
                        NoCapture /\ last_state = "pause"
                  /\ Attempts(acts) = 0
                  /\ ~Did("hotkey") /\ ~Did("hotkey_skipped")
                  /\ ~Did("do_screenshot_partial")
                  /\ ~club_scan_timed_out /\ club_scan_started_at = None

C39_Witness ==
    /\ Sampled
    /\ sample.in.obs_high_threshold < sample.in.saturation
    /\ sample.in.saturation < sample.in.shot_threshold
    /\ sample.branch = "capture"
    /\ Did("do_screenshot")
    /\ sample.before.last_state = "pause"

\* C40: the loop pauses only when every pause it issued before has been
\* followed by a resume of the loop: no two pauses without a resume between.
C40_NoDoublePause ==
    (Sampled /\ Did("pause")) => ~sample.before.pause_open
(***************************************************************************)
(* Vocabulary of the relay's properties: the step that run() just took.    *)
(***************************************************************************)
\* The detector has just sampled a frame.
FrameStep == relay_step.kind = "frame"

\* The inner loop has just read a payload.
PayloadStep == relay_step.kind = "recv" /\ relay_step.in.kind = "data"

\* The last step of the relay did a.
RelayDid(a) == \E i \in 1..Len(relay_acts) : relay_acts[i] = a

\* How often the last step of the relay did a.
RelayTimes(a) == Len(SelectSeq(relay_acts, LAMBDA x : x = a))

\* The frames sampled so far end with these (TRUE is a grayscale frame).
LastFrames(fs) ==
    LET n == Len(relay_hist.frames)
    IN  /\ n >= Len(fs)
        /\ \A i \in 1..Len(fs) : relay_hist.frames[n - Len(fs) + i] = fs[i]

\* C24: the detector pauses only on a grayscale sample that follows a
\* grayscale sample, so never on or after a single grayscale sample between
\* color samples; and it does pause on the second of two consecutive grayscale
\* samples that are the first two samples, or that follow the first sample, or
\* that follow two consecutive color samples.
C24_GrayscaleDebounce ==
    FrameStep =>
        /\ RelayDid("pause") => LastFrames(<<TRUE, TRUE>>)
        /\ relay_hist.frames = <<TRUE, TRUE>> => RelayDid("pause")
        /\ relay_hist.frames = <<FALSE, TRUE, TRUE>> => RelayDid("pause")
        /\ LastFrames(<<FALSE, FALSE, TRUE, TRUE>>) => RelayDid("pause")
        /\ RelayTimes("pause") <= 1

C24_Witness ==
    /\ FrameStep
    /\ LastFrames(<<FALSE, FALSE, TRUE, TRUE>>)
    /\ RelayDid("pause")

\* C25: while a client connection is open (and no shutdown is asked for) the
\* detector can take its next sample, whatever the socket loop is doing.
C25_DetectorSamplesWhileConnected ==
    (relay_pc \in {"inner", "gate", "recv"} /\ ~relay_shutdown) => ENABLED Detect

\* C26: when the detector pauses it does, in this order and once each, pause,
\* the settle wait, the replay call (or its skip when OBS is not connected) and
\* resume, also when the replay call raises; the gate is open after it.
C26_PauseSettleReplayResume ==
    (FrameStep /\ RelayDid("pause")) =>
        /\ Len(relay_acts) >= 5
        /\ relay_acts[2] = "pause"
        /\ relay_acts[3] = "settle_wait"
        /\ relay_acts[4] = (IF obs_connected THEN "replay" ELSE "replay_skipped")
        /\ relay_acts[Len(relay_acts)] = "resume"
        /\ RelayTimes("pause") = 1 /\ RelayTimes("resume") = 1
        /\ RelayTimes("replay") + RelayTimes("replay_skipped") = 1
        /\ relay_step.in.replay_raises /\ obs_connected =>
              relay_acts[5] = "replay_error"
        /\ relay_step.pause_gate

C26_Witness ==
    /\ FrameStep /\ RelayDid("pause")
    /\ RelayDid("replay_error")
    /\ RelayDid("resume")
    /\ relay_step.pause_gate
    /\ ~relay_step.before.pause_gate

C28_SendFailureKeepsConnection ==
    /\ (PayloadStep /\ relay_hist.failed) =>
          /\ RelayDid("shot_error")
          /\ relay_pc = "inner"
          /\ connection = relay_step.connection
          /\ connection.id \in relay_hist.live
          /\ ~RelayDid("finished") /\ ~RelayDid("disconnected")
    /\ (PayloadStep /\ relay_step.before.failed) =>
          /\ connection = relay_step.connection
          /\ (/\ relay_step.in.gspro_connected
              /\ ~relay_step.in.send_raises
              /\ ~relay_step.in.reply_raises) =>
                 relay_acts = <<"gspro_send", "send_msg", "relay_server_shot">>

C28_Witness ==
    /\ PayloadStep /\ relay_step.before.failed
    /\ relay_acts = <<"gspro_send", "send_msg", "relay_server_shot">>

\* The inner loop has just seen the connection lost.
LossStep ==
    /\ relay_step.kind \in {"recv", "fatal"}
    /\ "in" \in DOMAIN relay_step
    /\ relay_step.in.kind \in {"empty", "connection_error"}

\* C29: an empty read and a connection error end the inner loop without
\* ending the worker: the loop goes on to its sleep and from there to the next
\* iteration with its accept; a connection is accepted only when none is live.
C29_ConnectionLossReturnsToAccept ==
    /\ LossStep =>
          /\ relay_pc = "sleep"
          /\ ~RelayDid("finished") /\ ~RelayDid("error")
          /\ relay_step.connection.id \notin relay_hist.live
    /\ (relay_step.kind = "accept" /\ relay_step.out = "connection"
        /\ relay_step.before.accepted >= 1) =>
          relay_pc = "inner" /\ RelayDid("connected")

C29_Witness ==
    /\ relay_step.kind = "accept" /\ relay_step.out = "connection"
    /\ relay_step.before.accepted = 1
    /\ relay_step.before.live = {}
    /\ relay_pc = "inner"

\* C30: at most one accepted connection is live at any time, and a connection
\* is accepted only when no earlier one is still being served.
C30_OneConnectionAtATime ==
    /\ Cardinality(relay_hist.live) <= 1
    /\ (relay_step.kind = "accept" /\ relay_step.out = "connection") =>
          relay_step.before.live = {}
    /\ relay_pc \in {"inner", "gate", "recv"} => relay_hist.live = {connection.id}

C30_Witness ==
    /\ PayloadStep
    /\ connection = [id |-> 2]
    /\ relay_hist.live = {2}
    /\ relay_hist.accepted = 2

\* C31: cooperative shutdown of the relay server: once the shutdown flag is
\* set, the loops of run() see it, run() leaves them and finished is emitted.
\* A run that is held at the gate is left aside (the gate is then for the main
\* window to open): the flag is to be seen whenever the gate is open.
C31_ShutdownFinishes ==
    (relay_shutdown /\ pause_gate)
        ~> ((relay_pc = "done" /\ RelayDid("finished")) \/ ~pause_gate)

\* C32: once a frame has been sampled, exactly one of the two counters of the
\* detector is non-zero: a frame adds one to the counter of its kind and sets
\* the other to 0, so the two stability tests never hold together.
C32_OneCounterNonZero ==
    /\ relay_hist.frames # <<>> =>
          (consecutive_grayscale > 0) # (consecutive_color > 0)
    /\ ~(StableGrayscale(Detector) /\ StableColor(Detector))
    /\ FrameStep =>
          IF IsGrayscaleImage(relay_step.in)
          THEN /\ consecutive_grayscale =
                     Min(relay_step.before.consecutive_grayscale + 1, MaxCount)
               /\ consecutive_color = 0
          ELSE /\ consecutive_color =
                     Min(relay_step.before.consecutive_color + 1, MaxCount)
               /\ consecutive_grayscale = 0

C32_Witness ==
    /\ FrameStep /\ ~IsGrayscaleImage(relay_step.in)
    /\ relay_step.before.consecutive_grayscale >= RequiredConsecutiveFrames
    /\ consecutive_color = 1 /\ consecutive_grayscale = 0

\* C33: after the detector has paused and fired the replay trigger, it does
\* so again only after two color frames in a row: a single color frame between
\* two runs of grayscale frames does not let it fire again.
C33_RearmNeedsTwoColorFrames ==
    /\ (FrameStep /\ RelayDid("pause")) => relay_step.before.armed
    /\ (FrameStep /\ ~relay_step.before.armed) =>
          /\ ~RelayDid("pause") /\ ~RelayDid("replay")
          /\ ~RelayDid("replay_skipped")
    /\ (FrameStep /\ RelayDid("pause")) =>
          /\ relay_last_state = "gray" /\ ~relay_hist.armed

\* Grayscale, grayscale (pause), color, grayscale, grayscale: no second pause.
C33_Witness ==
    /\ FrameStep
    /\ LastFrames(<<TRUE, FALSE, TRUE, TRUE>>)
    /\ ~relay_step.before.armed
    /\ consecutive_grayscale = RequiredConsecutiveFrames
    /\ ~RelayDid("pause")
====
